---------------------------- MODULE Spec2Model ----------------------------
(***************************************************************************)
(* Health Notifier backend: the risk scoring engine                        *)
(* (app/services/risk_service.py), the weather lookup it consumes          *)
(* (app/services/weather_service.py), the notification escalation          *)
(* (app/services/notification_service.py) and the EmergencyNotification    *)
(* record it drives (app/models/emergency_notification.py).                *)
(*                                                                         *)
(* Text is modelled as a sequence of one-character strings, so that        *)
(* lower(), strip(), split(';'), startswith('O') and the substring test    *)
(* `a in b` are computed, not assumed.                                     *)
(***************************************************************************)
EXTENDS Integers, Sequences, FiniteSets, TLC

VARIABLES
    patient,                  \* the patient object handed to the services
    facilities,               \* rows of health_facilities
    emergency_notifications,  \* rows of emergency_notifications, id = index
    notifications,            \* rows of notifications, id = index
    risk_assessments,         \* rows of risk_assessments, id = index
    clock,                    \* datetime.utcnow(), one tick per request
    assessment,               \* what the last assess_risk call produced
    outcome                   \* what the last request produced

vars == <<patient, facilities, emergency_notifications, notifications,
          risk_assessments, clock, assessment, outcome>>

(***************************************************************************)
(* Bounds of the model.                                                    *)
(***************************************************************************)
MinAge == 15
MaxAge == 37
MaxRequests == 3

(***************************************************************************)
(* Text helpers (Python str methods).                                      *)
(***************************************************************************)
UpperChars ==
    <<"A","B","C","D","E","F","G","H","I","J","K","L","M",
      "N","O","P","Q","R","S","T","U","V","W","X","Y","Z">>

LowerChars ==
    <<"a","b","c","d","e","f","g","h","i","j","k","l","m",
      "n","o","p","q","r","s","t","u","v","w","x","y","z">>

\* str.lower() on one character
LowerChar(c) ==
    IF \E i \in 1..Len(UpperChars) : UpperChars[i] = c
    THEN LowerChars[CHOOSE i \in 1..Len(UpperChars) : UpperChars[i] = c]
    ELSE c

\* str.lower()
Lower(s) == [i \in 1..Len(s) |-> LowerChar(s[i])]

\* `a in b` for two strings: a occurs as a contiguous substring of b
Contains(a, b) ==
    \E k \in 0..(Len(b) - Len(a)) :
        \A i \in 1..Len(a) : b[k + i] = a[i]

\* str.startswith(c) for a one-character prefix
StartsWith(s, c) == Len(s) >= 1 /\ s[1] = c

\* str.strip(): leading and trailing blanks removed
RECURSIVE LStrip(_)
LStrip(s) ==
    IF s # <<>> /\ Head(s) = " " THEN LStrip(Tail(s)) ELSE s

RECURSIVE RStrip(_)
RStrip(s) ==
    IF s # <<>> /\ s[Len(s)] = " " THEN RStrip(SubSeq(s, 1, Len(s) - 1)) ELSE s

Strip(s) == RStrip(LStrip(s))

\* str.split(';'): the pieces between the separators, empty pieces kept
RECURSIVE SplitSemi(_, _)
SplitSemi(s, cur) ==
    IF s = <<>> THEN <<cur>>
    ELSE IF Head(s) = ";" THEN <<cur>> \o SplitSemi(Tail(s), <<>>)
    ELSE SplitSemi(Tail(s), Append(cur, Head(s)))

(***************************************************************************)
(* The tables of RiskAssessmentService.                                    *)
(***************************************************************************)
HIGH_RISK_PREGNANCY_CODES ==
    { <<"O","2","4",".","4">>,
      <<"O","1","3">>,
      <<"O","1","4">>,
      <<"O","1","5">>,
      <<"O","1","6">>,
      <<"O","2","6",".","2">>,
      <<"O","2","6",".","9">>,
      <<"O","3","6",".","5">>,
      <<"O","0","9",".","3">>,
      <<"O","0","9",".","5">> }

HIGH_RISK_COMORBIDITY_CODES ==
    { <<"I","1","0">>,
      <<"E","1","1",".","9">>,
      <<"E","0","3",".","9">>,
      <<"J","4","5",".","9">>,
      <<"D","5","0",".","9">>,
      <<"E","6","6",".","9">> }

MEDIUM_RISK_COMORBIDITY_CODES ==
    { <<"E","6","6",".","0">>,
      <<"E","6","6",".","0","1">>,
      <<"E","6","6",".","0","9">>,
      <<"D","5","0",".","0">>,
      <<"D","5","0",".","8">>,
      <<"J","4","5",".","0">>,
      <<"J","4","5",".","1">>,
      <<"J","4","5",".","8">>,
      <<"J","4","5",".","9">> }

\* dict keys in insertion order
HIGH_RISK_MEDICATIONS ==
    << <<"I","n","s","u","l","i","n">>,
       <<"L","a","b","e","t","a","l","o","l">>,
       <<"M","e","t","f","o","r","m","i","n">>,
       <<"W","a","r","f","a","r","i","n">>,
       <<"P","h","e","n","y","t","o","i","n">>,
       <<"L","i","t","h","i","u","m">>,
       <<"A","C","E"," ","i","n","h","i","b","i","t","o","r","s">>,
       <<"A","R","B","s">> >>

MEDIUM_RISK_MEDICATIONS ==
    << <<"L","e","v","o","t","h","y","r","o","x","i","n","e">>,
       <<"F","e","r","r","o","u","s"," ","s","u","l","f","a","t","e">>,
       <<"F","o","l","i","c"," ","a","c","i","d">>,
       <<"C","a","l","c","i","u","m">>,
       <<"V","i","t","a","m","i","n"," ","D">> >>

(***************************************************************************)
(* Patient (app/models/patient.py).                                        *)
(***************************************************************************)
\* Patient.get_conditions: pregnancy code then comorbidity code, falsy skipped
get_conditions(p) ==
    (IF p.pregnancy_icd10 # <<>> THEN <<p.pregnancy_icd10>> ELSE <<>>)
    \o (IF p.comorbidity_icd10 # <<>> THEN <<p.comorbidity_icd10>> ELSE <<>>)

\* Patient.get_trimester: 0 stands for None
get_trimester(p) ==
    IF p.weeks_pregnant # 0
    THEN IF p.weeks_pregnant <= 12 THEN 1
         ELSE IF p.weeks_pregnant <= 24 THEN 2
         ELSE 3
    ELSE 0

\* [med.strip() for med in s.split(';') if med.strip()]
RECURSIVE StripNonEmpty(_)
StripNonEmpty(pieces) ==
    IF pieces = <<>> THEN <<>>
    ELSE (IF Strip(Head(pieces)) # <<>> THEN <<Strip(Head(pieces))>> ELSE <<>>)
         \o StripNonEmpty(Tail(pieces))

\* Patient.get_medications_list
get_medications_list(p) ==
    IF p.medications # <<>>
    THEN StripNonEmpty(SplitSemi(p.medications, <<>>))
    ELSE <<>>


(***************************************************************************)
(* WeatherService (app/services/weather_service.py).  The HTTP exchange    *)
(* is an input: `w.kind` is how the request ended and `w.temp` the         *)
(* temperature of a 200 response.  Only the fields the scoring reads are   *)
(* kept of the snapshot, with humidity and description as passed through.  *)
(***************************************************************************)
\* the snapshot returned when requests raises RequestException
DefaultWeather ==
    [temperature |-> 25, humidity |-> 50, description |-> "Unknown",
     is_heat_wave |-> FALSE]

WeatherService_get_weather_data(w) ==
    IF w.kind = "ok"
    THEN [raised |-> FALSE,
          value |-> [temperature |-> w.temp, humidity |-> 40,
                     description |-> "clear sky",
                     is_heat_wave |-> (w.temp > 35)]]
    ELSE IF w.kind = "bad_status"
    THEN [raised |-> TRUE, exception |-> "ExternalAPIException"]
    ELSE IF w.kind \in {"timeout", "connection_error"}
    THEN [raised |-> FALSE, value |-> DefaultWeather]
    ELSE \* a 200 response whose JSON lacks the keys read: KeyError
         [raised |-> TRUE, exception |-> "KeyError"]

(***************************************************************************)
(* RiskAssessmentService (app/services/risk_service.py).                   *)
(***************************************************************************)
\* variant: the upper ends of the two high ranges left out (`<` for `<=`)
calculate_age_risk_OpenEnds(age) ==
    IF (17 <= age /\ age < 20) \/ (31 <= age /\ age < 35)
    THEN [score |-> 2, level |-> "high"]
    ELSE IF 21 <= age /\ age <= 30
    THEN [score |-> 1, level |-> "medium"]
    ELSE [score |-> 0, level |-> "low"]

calculate_age_risk(age) ==
    IF (17 <= age /\ age <= 20) \/ (31 <= age /\ age <= 35)
    THEN [score |-> 2, level |-> "high"]
    ELSE IF 21 <= age /\ age <= 30
    THEN [score |-> 1, level |-> "medium"]
    ELSE [score |-> 0, level |-> "low"]

\* variant: the second test made on trimester 2 instead of 1
calculate_trimester_risk_Second(trimester) ==
    IF trimester = 3 THEN [score |-> 2, level |-> "high"]
    ELSE IF trimester = 2 THEN [score |-> 1, level |-> "medium"]
    ELSE [score |-> 0, level |-> "low"]

calculate_trimester_risk(trimester) ==
    IF trimester = 3 THEN [score |-> 2, level |-> "high"]
    ELSE IF trimester = 1 THEN [score |-> 1, level |-> "medium"]
    ELSE [score |-> 0, level |-> "low"]

\* variant: the temperature tested before the heat-wave flag
calculate_location_risk_TemperatureFirst(weather_data) ==
    IF weather_data.temperature > 30 THEN [score |-> 1, level |-> "medium"]
    ELSE IF weather_data.is_heat_wave THEN [score |-> 2, level |-> "high"]
    ELSE [score |-> 0, level |-> "low"]

\* variant: the temperature test made inclusive (`>= 30`)
calculate_location_risk_Inclusive(weather_data) ==
    IF weather_data.is_heat_wave THEN [score |-> 2, level |-> "high"]
    ELSE IF weather_data.temperature >= 30 THEN [score |-> 1, level |-> "medium"]
    ELSE [score |-> 0, level |-> "low"]

calculate_location_risk(weather_data) ==
    IF weather_data.is_heat_wave THEN [score |-> 2, level |-> "high"]
    ELSE IF weather_data.temperature > 30 THEN [score |-> 1, level |-> "medium"]
    ELSE [score |-> 0, level |-> "low"]

\* the codes of `codes` that do / do not start with 'O', in order
RECURSIVE SelectPrefixO(_, _)
SelectPrefixO(codes, want) ==
    IF codes = <<>> THEN <<>>
    ELSE (IF StartsWith(Head(codes), "O") = want THEN <<Head(codes)>> ELSE <<>>)
         \o SelectPrefixO(Tail(codes), want)

\* one pregnancy code: its score and its detail line
PregnancyCodeRisk(code) ==
    IF code \in HIGH_RISK_PREGNANCY_CODES
    THEN [score |-> 2, details |-> << <<"High-risk pregnancy", code>> >>]
    ELSE IF StartsWith(code, "O")
    THEN [score |-> 1, details |-> << <<"Pregnancy condition", code>> >>]
    ELSE [score |-> 0, details |-> <<>>]

\* one comorbidity code: its score and its detail line
ComorbidityCodeRisk(code) ==
    IF code \in HIGH_RISK_COMORBIDITY_CODES
    THEN [score |-> 2, details |-> << <<"High-risk comorbidity", code>> >>]
    ELSE IF code \in MEDIUM_RISK_COMORBIDITY_CODES
    THEN [score |-> 1, details |-> << <<"Medium-risk comorbidity", code>> >>]
    ELSE [score |-> 0, details |-> <<>>]

RECURSIVE SumPregnancy(_)
SumPregnancy(codes) ==
    IF codes = <<>> THEN [score |-> 0, details |-> <<>>]
    ELSE LET h == PregnancyCodeRisk(Head(codes))
             t == SumPregnancy(Tail(codes))
         IN  [score |-> h.score + t.score, details |-> h.details \o t.details]

RECURSIVE SumComorbidity(_)
SumComorbidity(codes) ==
    IF codes = <<>> THEN [score |-> 0, details |-> <<>>]
    ELSE LET h == ComorbidityCodeRisk(Head(codes))
             t == SumComorbidity(Tail(codes))
         IN  [score |-> h.score + t.score, details |-> h.details \o t.details]

calculate_conditions_risk(p) ==
    LET legacy_codes == IF p.has_get_conditions THEN get_conditions(p) ELSE <<>>
        pregnancy_codes ==
            (IF p.pregnancy_icd10 # <<>> THEN <<p.pregnancy_icd10>> ELSE <<>>)
            \o SelectPrefixO(legacy_codes, TRUE)
        comorbidity_codes ==
            (IF p.comorbidity_icd10 # <<>> THEN <<p.comorbidity_icd10>> ELSE <<>>)
            \o SelectPrefixO(legacy_codes, FALSE)
        preg == SumPregnancy(pregnancy_codes)
        com  == SumComorbidity(comorbidity_codes)
        risk_score == preg.score + com.score
    IN  [score |-> risk_score,
         level |-> IF risk_score >= 6 THEN "high"
                   ELSE IF risk_score >= 3 THEN "medium" ELSE "low",
         details |-> preg.details \o com.details,
         pregnancy_codes |-> pregnancy_codes,
         comorbidity_codes |-> comorbidity_codes]

\* the first name of `table` that occurs, lower-cased, in the lower-cased
\* medication; 0 when the loop ends without a break
FirstMatch(table, medication) ==
    IF \E i \in 1..Len(table) : Contains(Lower(table[i]), Lower(medication))
    THEN CHOOSE i \in 1..Len(table) :
            /\ Contains(Lower(table[i]), Lower(medication))
            /\ \A j \in 1..(i - 1) : ~Contains(Lower(table[j]), Lower(medication))
    ELSE 0

\* variant: the medium-risk table is consulted after a high-risk match too
\* (the inner loop's `else` lost)
MedicationRisk_NoElse(medication) ==
    [score |-> (IF FirstMatch(HIGH_RISK_MEDICATIONS, medication) # 0
                THEN 2 ELSE 0)
               + (IF FirstMatch(MEDIUM_RISK_MEDICATIONS, medication) # 0
                  THEN 1 ELSE 0),
     details |-> <<>>]

\* one pass of the for/else over the two tables
MedicationRisk(medication) ==
    IF FirstMatch(HIGH_RISK_MEDICATIONS, medication) # 0
    THEN [score |-> 2,
          details |-> << <<"High-risk medication", medication,
                           FirstMatch(HIGH_RISK_MEDICATIONS, medication)>> >>]
    ELSE IF FirstMatch(MEDIUM_RISK_MEDICATIONS, medication) # 0
    THEN [score |-> 1,
          details |-> << <<"Medium-risk medication", medication,
                           FirstMatch(MEDIUM_RISK_MEDICATIONS, medication)>> >>]
    ELSE [score |-> 0, details |-> <<>>]

\* variant: the sub-score of the list is its highest entry, not the sum
RECURSIVE SumMedications_MaxEntry(_)
SumMedications_MaxEntry(medications) ==
    IF medications = <<>> THEN [score |-> 0, details |-> <<>>]
    ELSE LET h == MedicationRisk(Head(medications))
             t == SumMedications_MaxEntry(Tail(medications))
         IN  [score |-> IF h.score > t.score THEN h.score ELSE t.score,
              details |-> h.details \o t.details]

RECURSIVE SumMedications(_)
SumMedications(medications) ==
    IF medications = <<>> THEN [score |-> 0, details |-> <<>>]
    ELSE LET h == MedicationRisk(Head(medications))
             t == SumMedications(Tail(medications))
         IN  [score |-> h.score + t.score, details |-> h.details \o t.details]

calculate_medications_risk(p) ==
    LET medications ==
            IF p.has_get_medications_list THEN get_medications_list(p)
            ELSE IF p.medications # <<>>
            THEN StripNonEmpty(SplitSemi(p.medications, <<>>))
            ELSE <<>>
        s == SumMedications(medications)
    IN  [score |-> s.score,
         level |-> IF s.score >= 4 THEN "high"
                   ELSE IF s.score >= 2 THEN "medium" ELSE "low",
         details |-> s.details,
         medications |-> medications]

calculate_age_group_risk(between_17_35) ==
    IF between_17_35 = "True"
    THEN [score |-> 0, level |-> "low"]
    ELSE [score |-> 2, level |-> "high"]

\* variant: the flag tested for truth (`if patient.between_17_35:`)
AgeGroupFlagUsed_Truthy(p) ==
    p.has_between_17_35 /\ p.between_17_35 = "True"

\* hasattr(patient, 'between_17_35') and patient.between_17_35 is not None
AgeGroupFlagUsed(p) ==
    p.has_between_17_35 /\ p.between_17_35 # "None"

\* variant: the thresholds compared strictly (`<` for `<=`)
FinalRiskLevel_Strict(risk_score) ==
    IF risk_score < 3 THEN "low"
    ELSE IF risk_score < 5 THEN "medium"
    ELSE "high"

\* the final classification of the total
FinalRiskLevel(risk_score) ==
    IF risk_score <= 3 THEN "low"
    ELSE IF risk_score <= 5 THEN "medium"
    ELSE "high"

\* the snapshot assess_risk substitutes in its except clause
UnavailableWeather ==
    [temperature |-> 25, humidity |-> 50, description |-> "Unknown",
     is_heat_wave |-> FALSE]

\* the location step of assess_risk: the lookup, its except clause
LocationStep(w) ==
    LET got == WeatherService_get_weather_data(w)
    IN  IF ~got.raised
        THEN [raised |-> FALSE,
              score |-> calculate_location_risk(got.value).score,
              level |-> calculate_location_risk(got.value).level,
              heat_wave |-> got.value.is_heat_wave,
              weather_data |-> got.value]
        ELSE IF got.exception = "ExternalAPIException"
        THEN [raised |-> FALSE, score |-> 1, level |-> "medium",
              heat_wave |-> FALSE, weather_data |-> UnavailableWeather]
        ELSE [raised |-> TRUE, exception |-> got.exception]

\* variant: the conditions and medications factors added as a value of
\* their classification (low 0, medium 1, high 2) instead of their score
LevelPoints(level) ==
    IF level = "high" THEN 2 ELSE IF level = "medium" THEN 1 ELSE 0

assess_risk_FromLevels(p, w) ==
    IF ~p.has_trimester
    THEN \* patient.trimester: the object has no such attribute
         [raised |-> TRUE, exception |-> "AttributeError"]
    ELSE
    LET age_risk == calculate_age_risk(p.age)
        trimester_risk == calculate_trimester_risk(p.trimester)
        loc == LocationStep(w)
        conditions_risk == calculate_conditions_risk(p)
        medications_risk == calculate_medications_risk(p)
        age_group_risk == calculate_age_group_risk(p.between_17_35)
        risk_score ==
            age_risk.score + trimester_risk.score + loc.score
            + LevelPoints(conditions_risk.level)
            + LevelPoints(medications_risk.level)
            + (IF AgeGroupFlagUsed(p) THEN age_group_risk.score ELSE 0)
        factors ==
            ("age_risk" :> age_risk.level)
            @@ ("trimester_risk" :> trimester_risk.level)
            @@ ("location_risk" :> loc.level)
            @@ ("heat_wave" :> loc.heat_wave)
            @@ ("conditions_risk" :> conditions_risk.level)
            @@ ("conditions_details" :> conditions_risk.details)
            @@ ("medications_risk" :> medications_risk.level)
            @@ ("medications_details" :> medications_risk.details)
            @@ (IF AgeGroupFlagUsed(p)
                THEN ("age_group_risk" :> age_group_risk.level)
                ELSE <<>>)
    IN  IF loc.raised
        THEN [raised |-> TRUE, exception |-> loc.exception]
        ELSE [raised |-> FALSE,
              risk_level |-> FinalRiskLevel(risk_score),
              risk_score |-> risk_score,
              factors |-> factors,
              heat_wave_risk |-> factors["heat_wave"],
              weather_data |-> loc.weather_data]

assess_risk(p, w) ==
    IF ~p.has_trimester
    THEN \* patient.trimester: the object has no such attribute
         [raised |-> TRUE, exception |-> "AttributeError"]
    ELSE
    LET age_risk == calculate_age_risk(p.age)
        trimester_risk == calculate_trimester_risk(p.trimester)
        loc == LocationStep(w)
        conditions_risk == calculate_conditions_risk(p)
        medications_risk == calculate_medications_risk(p)
        age_group_risk == calculate_age_group_risk(p.between_17_35)
        risk_score ==
            age_risk.score + trimester_risk.score + loc.score
            + conditions_risk.score + medications_risk.score
            + (IF AgeGroupFlagUsed(p) THEN age_group_risk.score ELSE 0)
        factors ==
            ("age_risk" :> age_risk.level)
            @@ ("trimester_risk" :> trimester_risk.level)
            @@ ("location_risk" :> loc.level)
            @@ ("heat_wave" :> loc.heat_wave)
            @@ ("conditions_risk" :> conditions_risk.level)
            @@ ("conditions_details" :> conditions_risk.details)
            @@ ("medications_risk" :> medications_risk.level)
            @@ ("medications_details" :> medications_risk.details)
            @@ (IF AgeGroupFlagUsed(p)
                THEN ("age_group_risk" :> age_group_risk.level)
                ELSE <<>>)
    IN  IF loc.raised
        THEN [raised |-> TRUE, exception |-> loc.exception]
        ELSE [raised |-> FALSE,
              risk_level |-> FinalRiskLevel(risk_score),
              risk_score |-> risk_score,
              factors |-> factors,
              heat_wave_risk |-> factors["heat_wave"],
              weather_data |-> loc.weather_data]


(***************************************************************************)
(* Inputs.  A patient object carries the attributes the services read.     *)
(* The mapped class Patient declares no attribute `trimester`, so an       *)
(* object loaded from the store has none (has_trimester = FALSE); it has   *)
(* the three methods and the flag column.  assess_risk itself takes any    *)
(* object and tests with hasattr, so objects that carry `trimester` or     *)
(* lack a method or the flag are inputs too.  An empty sequence stands for *)
(* None or '' in the text columns, 0 for None in the integer ones.         *)
(***************************************************************************)
BasePatient ==
    [id |-> 1, name |-> <<"Anna", "Ivanova">>, age |-> 25,
     has_trimester |-> TRUE, trimester |-> 2, weeks_pregnant |-> 20,
     pregnancy_icd10 |-> <<>>, comorbidity_icd10 |-> <<>>,
     has_get_conditions |-> TRUE,
     medications |-> <<>>, has_get_medications_list |-> TRUE,
     has_between_17_35 |-> TRUE, between_17_35 |-> "True"]

PregnancyInputs ==
    { <<>>, <<"O","1","4">>, <<"O","9","9">>, <<"O","2","4",".","4">> }

ComorbidityInputs ==
    { <<>>, <<"I","1","0">>, <<"E","6","6",".","0">>,
      <<"J","4","5",".","9">>, <<"Z","0","0">> }

\* 'Insulin 10mg', 'Folic acid', 'Insulin 10mg; Folic acid',
\* 'Folic acid; insulin', 'Aspirin', 'LABETALOL;;  Calcium ',
\* 'Calcium carbs', 'Vitamin D; Calcium', 'Insulin; Warfarin'
MedicationInputs ==
    { <<>>,
      <<"I","n","s","u","l","i","n"," ","1","0","m","g">>,
      <<"F","o","l","i","c"," ","a","c","i","d">>,
      <<"I","n","s","u","l","i","n"," ","1","0","m","g",";"," ",
        "F","o","l","i","c"," ","a","c","i","d">>,
      <<"F","o","l","i","c"," ","a","c","i","d",";"," ",
        "i","n","s","u","l","i","n">>,
      <<"A","s","p","i","r","i","n">>,
      <<"L","A","B","E","T","A","L","O","L",";",";"," "," ",
        "C","a","l","c","i","u","m"," ">>,
      <<"C","a","l","c","i","u","m"," ","c","a","r","b","s">>,
      <<"V","i","t","a","m","i","n"," ","D",";"," ",
        "C","a","l","c","i","u","m">>,
      <<"I","n","s","u","l","i","n",";"," ",
        "W","a","r","f","a","r","i","n">> }

FlagInputs ==
    { [has |-> FALSE, value |-> "None"], [has |-> TRUE, value |-> "None"],
      [has |-> TRUE, value |-> "True"],  [has |-> TRUE, value |-> "False"] }

TrimesterInputs ==
    { [has |-> FALSE, value |-> 0] } \cup { [has |-> TRUE, value |-> t] : t \in 0..3 }

Temperatures == {20, 30, 31, 35, 36, 40}

\* the exchanges the escalation is run under
EscalationWeather ==
    { [kind |-> "ok", temp |-> 20], [kind |-> "ok", temp |-> 40],
      [kind |-> "timeout", temp |-> 0], [kind |-> "bad_status", temp |-> 0],
      [kind |-> "malformed", temp |-> 0] }

WeatherOutcomes ==
    { [kind |-> "ok", temp |-> t] : t \in Temperatures }
    \cup { [kind |-> k, temp |-> 0] :
             k \in {"timeout", "connection_error", "bad_status", "malformed"} }

\* every age with every trimester and flag
AgeInputs ==
    { [BasePatient EXCEPT !.age = a,
                          !.has_trimester = t.has, !.trimester = t.value,
                          !.has_between_17_35 = f.has, !.between_17_35 = f.value] :
        a \in MinAge..MaxAge, t \in TrimesterInputs, f \in FlagInputs }

\* every pair of diagnosis codes, with and without the legacy list
ConditionInputs ==
    { [BasePatient EXCEPT !.pregnancy_icd10 = pc, !.comorbidity_icd10 = cc,
                          !.has_get_conditions = g] :
        pc \in PregnancyInputs \cup {<<"I","1","0">>},
        cc \in ComorbidityInputs \cup {<<"O","1","4">>},
        g \in BOOLEAN }

\* every medication text, read through the method or the attribute
MedicationPatients ==
    { [BasePatient EXCEPT !.medications = m, !.has_get_medications_list = g] :
        m \in MedicationInputs, g \in BOOLEAN }

\* combinations across the factors
MixedInputs ==
    { [BasePatient EXCEPT !.age = a, !.trimester = t, !.weeks_pregnant = wk,
                          !.pregnancy_icd10 = pc, !.medications = m,
                          !.between_17_35 = f] :
        a \in {19, 25, 40}, t \in {2, 3}, wk \in {0, 30},
        pc \in {<<>>, <<"O","1","4">>},
        m \in { <<>>, <<"I","n","s","u","l","i","n"," ","1","0","m","g">> },
        f \in {"True", "False"} }

\* Patient rows as the database holds them: no trimester attribute, the
\* weeks of pregnancy absent or in each of the three stages
StoredInputs ==
    { [BasePatient EXCEPT !.has_trimester = FALSE, !.trimester = 0,
                          !.weeks_pregnant = wk] : wk \in {0, 10, 12, 13, 24, 30} }

AssessInputs == AgeInputs \cup ConditionInputs \cup MedicationPatients \cup MixedInputs \cup StoredInputs

NoAssessment == [called |-> FALSE]
NoOutcome == [op |-> "none", raised |-> FALSE]

(***************************************************************************)
(* The scoring run on its own: RiskAssessmentService.assess_risk applied   *)
(* to a patient object under one weather exchange.                         *)
(***************************************************************************)
InitAssess ==
    /\ patient \in AssessInputs
    /\ facilities = {}
    /\ emergency_notifications = <<>>
    /\ notifications = <<>>
    /\ risk_assessments = <<>>
    /\ clock = 0
    /\ assessment = NoAssessment
    /\ outcome = NoOutcome

AssessRisk ==
    /\ \E w \in WeatherOutcomes :
         assessment' = [called |-> TRUE, weather |-> w,
                        ret |-> assess_risk(patient, w)]
    /\ UNCHANGED <<patient, facilities, emergency_notifications,
                   notifications, risk_assessments, clock, outcome>>

NextAssess == AssessRisk

SpecAssess == InitAssess /\ [][NextAssess]_vars


(***************************************************************************)
(* HealthFacility rows and the lookups of NotificationService.  The phone  *)
(* "None" is SQL NULL.  Query.first() has no ORDER BY: any matching row.   *)
(***************************************************************************)
NoFacility == [id |-> 0, short_description |-> "None",
               facility_phone_number |-> "None"]

Facility(i, kind, phone) ==
    [id |-> i, short_description |-> kind, facility_phone_number |-> phone]

FacilityConfigs ==
    { {},
      { Facility(1, "HOSP", "None"), Facility(2, "NH", "555-0102") },
      { Facility(1, "HOSP", "555-0101"), Facility(2, "DTC", "555-0102") },
      { Facility(1, "HOSP-EC", "555-0101"), Facility(2, "HOSP", "555-0102") } }

\* the rows the filter of _find_nearest_hospital selects
HospitalRows(rows) ==
    { f \in rows : /\ f.short_description \in {"HOSP", "HOSP-EC"}
                   /\ f.facility_phone_number # "None" }

\* the rows the filter of _find_nearest_clinic selects
ClinicRows(rows) ==
    { f \in rows : /\ f.short_description \in {"DTC", "HOSP-EC"}
                   /\ f.facility_phone_number # "None" }

\* what _find_nearest_hospital may return: the query raising is caught
find_nearest_hospital(rows, query_fails) ==
    IF query_fails \/ HospitalRows(rows) = {} THEN {NoFacility}
    ELSE HospitalRows(rows)

\* what _find_nearest_clinic may return
find_nearest_clinic(rows, query_fails) ==
    IF query_fails \/ ClinicRows(rows) = {} THEN {NoFacility}
    ELSE ClinicRows(rows)

(***************************************************************************)
(* EmergencyNotification (app/models/emergency_notification.py).  A method *)
(* changes the object; db.session.commit() writes the object to its row    *)
(* or raises and leaves the row as it was.  0 stands for a NULL timestamp. *)
(***************************************************************************)
NewEmergencyNotification(i, p, hospital, text) ==
    [id |-> i, patient_id |-> p.id, health_facility_id |-> hospital.id,
     risk_level |-> "high", notification_type |-> "doctor_call",
     message |-> text, status |-> "pending", priority |-> "critical",
     sent_at |-> 0, delivered_at |-> 0,
     response_received |-> FALSE, response_message |-> "None",
     response_received_at |-> 0]

mark_as_sent(n, now) == [n EXCEPT !.status = "sent", !.sent_at = now]

mark_as_delivered(n, now) ==
    [n EXCEPT !.status = "delivered", !.delivered_at = now]

mark_as_failed(n) == [n EXCEPT !.status = "failed"]

\* variant: attaching a response also marks the notification delivered
add_response_Delivers(n, response_message, now) ==
    [n EXCEPT !.response_received = TRUE,
              !.response_message = response_message,
              !.response_received_at = now,
              !.status = "delivered", !.delivered_at = now]

add_response(n, response_message, now) ==
    [n EXCEPT !.response_received = TRUE,
              !.response_message = response_message,
              !.response_received_at = now]

NewNotification(i, p, text, level, now) ==
    [id |-> i, patient_id |-> p.id, message |-> text, risk_level |-> level,
     notification_type |-> "general_health", sent_at |-> now,
     read_status |-> FALSE, read_at |-> 0]

(***************************************************************************)
(* MessageService (app/services/message_service.py).  The class defines    *)
(* generate_personalized_message and _get_default_message only: the call   *)
(* MessageService.generate_message(...) of the escalation branches finds   *)
(* no such attribute.                                                      *)
(***************************************************************************)
\* a subscript risk_assessment[key] of a dict without the key
KeyError(key) == [raised |-> TRUE, exception |-> "KeyError", key |-> key]

get_default_message(p, risk_assessment) ==
    LET \* patient.name.split()[0], or the generic form of address
        patient_name == IF p.name # <<>> THEN p.name[1] ELSE "Uvazhaemaya"
        text(template) ==
            [raised |-> FALSE, template |-> template, name |-> patient_name,
             temp |-> IF template = "high_heat_wave"
                      THEN risk_assessment.weather_data.temperature
                      ELSE 0]
    IN  IF "risk_level" \notin DOMAIN risk_assessment
        THEN KeyError("risk_level")
        ELSE IF "heat_wave_risk" \notin DOMAIN risk_assessment
        THEN KeyError("heat_wave_risk")
        ELSE IF "weather_data" \notin DOMAIN risk_assessment
        THEN KeyError("weather_data")
        ELSE IF "temperature" \notin DOMAIN risk_assessment.weather_data
        THEN KeyError("temperature")
        ELSE IF risk_assessment.risk_level = "high"
        THEN IF risk_assessment.heat_wave_risk
             THEN text("high_heat_wave")
             ELSE text("high")
        ELSE IF risk_assessment.risk_level = "medium"
        THEN text("medium")
        ELSE text("low")

\* what the generative capability does when asked
GeminiOutcomes == {"ok", "no_api_key", "api_error"}

\* the keys of the context dict the prompt is formatted from
PromptContextKeys ==
    {"patient_name", "age", "trimester", "risk_level", "heat_wave",
     "temperature", "conditions"}

\* the keys the prompt reads from the context
PromptKeysRead ==
    {"patient_name", "age", "trimester", "trimester_risk", "risk_level",
     "heat_wave", "temperature", "conditions"}

\* MessageService.generate_personalized_message: everything up to the
\* return of the generated text is inside the try; any exception there goes
\* to _get_default_message, whose own exceptions leave the method
generate_personalized_message(p, risk_assessment, gemini) ==
    LET configured == gemini # "no_api_key"
        context_built ==
            /\ configured
            /\ {"trimester_risk", "risk_level", "heat_wave_risk",
                "weather_data"} \subseteq DOMAIN risk_assessment
            /\ "temperature" \in DOMAIN risk_assessment.weather_data
            /\ p.has_get_conditions
        prompt_built == context_built /\ PromptKeysRead \subseteq PromptContextKeys
        generated == prompt_built /\ gemini = "ok"
    IN  IF generated
        THEN [raised |-> FALSE, template |-> "generated",
              name |-> p.name, temp |-> risk_assessment.weather_data.temperature]
        ELSE get_default_message(p, risk_assessment)

\* variant: the class has the method the escalation branches call
MessageService_generate_message_Defined(p, risk_assessment) ==
    [raised |-> FALSE,
     value |-> [template |-> risk_assessment.risk_level, name |-> p.name]]

\* MessageService.generate_message: no such attribute
MessageService_generate_message(p, risk_assessment) ==
    [raised |-> TRUE, exception |-> "AttributeError"]

(***************************************************************************)
(* NotificationService (app/services/notification_service.py).  `fails` is *)
(* the set of lookups and commits that raise during the call.              *)
(***************************************************************************)
FailPoints ==
    {"find_hospital", "commit_emergency", "commit_sent", "commit_failed",
     "commit_notification", "find_clinic"}

\* the failures injected into one call: none, each one alone, and the
\* commit of mark_as_failed raising after the commit of mark_as_sent did
FailScenarios ==
    { {} } \cup { {f} : f \in FailPoints \ {"commit_failed"} }
    \cup { {"commit_sent", "commit_failed"} }

\* str.upper() of a risk level
UpperLevel(level) ==
    IF level = "high" THEN "HIGH"
    ELSE IF level = "medium" THEN "MEDIUM" ELSE "LOW"

\* variant: the fallback reports a fixed level instead of its argument
create_fallback_notification_FixedLevel(p, risk_level) ==
    [success |-> TRUE, risk_level |-> "medium",
     action_taken |-> "fallback_notification",
     message |-> [template |-> "fallback", header |-> UpperLevel(risk_level),
                  name |-> p.name, level |-> risk_level]]

create_fallback_notification(p, risk_level) ==
    [success |-> TRUE, risk_level |-> risk_level,
     action_taken |-> "fallback_notification",
     message |-> [template |-> "fallback", header |-> UpperLevel(risk_level),
                  name |-> p.name, level |-> risk_level]]

generate_high_risk_message(p, hospital) ==
    [template |-> "doctor_call", name |-> p.name, age |-> p.age,
     weeks_pregnant |-> p.weeks_pregnant, trimester |-> get_trimester(p),
     pregnancy_icd10 |-> p.pregnancy_icd10,
     comorbidity_icd10 |-> p.comorbidity_icd10,
     hospital |-> hospital.id, phone |-> hospital.facility_phone_number]

\* _send_doctor_call on the row `n`: the row as the database holds it
\* afterwards, and whether the call raised out of its except clause
send_doctor_call(n, fails, now) ==
    IF "commit_sent" \notin fails
    THEN [raised |-> FALSE, returned |-> TRUE, row |-> mark_as_sent(n, now),
          steps |-> <<"mark_as_sent">>]
    ELSE IF "commit_failed" \notin fails
    THEN [raised |-> FALSE, returned |-> FALSE,
          row |-> mark_as_failed(mark_as_sent(n, now)),
          steps |-> <<"mark_as_sent_raised", "mark_as_failed">>]
    ELSE [raised |-> TRUE, returned |-> FALSE, row |-> n,
          steps |-> <<"mark_as_sent_raised", "mark_as_failed_raised">>]

\* one escalation branch gives: the result dict, the two tables afterwards,
\* the facility the lookup returned and the steps taken
Branch(result, ens, ns, facility, steps) ==
    [result |-> result, emergency_notifications |-> ens,
     notifications |-> ns, facility |-> facility, steps |-> steps]

\* variant: the send attempt made on the new object before its first commit
handle_high_risk_SendFirst(p, nearest_hospital, ens, ns, fails, now) ==
    IF nearest_hospital = NoFacility
    THEN Branch(create_fallback_notification(p, "high"), ens, ns,
                nearest_hospital,
                IF "find_hospital" \in fails
                THEN <<"find_hospital_raised">> ELSE <<"no_hospital">>)
    ELSE IF "commit_emergency" \in fails
    THEN Branch(create_fallback_notification(p, "high"), ens, ns,
                nearest_hospital, <<"commit_emergency_raised">>)
    ELSE
    LET emergency_notification ==
            NewEmergencyNotification(Len(ens) + 1, p, nearest_hospital,
                generate_high_risk_message(p, nearest_hospital))
        sent == send_doctor_call(emergency_notification, fails, now)
        ens2 == Append(ens, sent.row)
        steps2 == sent.steps \o <<"emergency_persisted">>
        patient_message ==
            MessageService_generate_message(p,
                [risk_level |-> "high", heat_wave_risk |-> FALSE])
    IN  IF sent.raised
        THEN Branch(create_fallback_notification(p, "high"), ens2, ns,
                    nearest_hospital, steps2)
        ELSE IF patient_message.raised
        THEN Branch(create_fallback_notification(p, "high"), ens2, ns,
                    nearest_hospital, steps2 \o <<"generate_message_raised">>)
        ELSE IF "commit_notification" \in fails
        THEN Branch(create_fallback_notification(p, "high"), ens2, ns,
                    nearest_hospital, steps2 \o <<"commit_notification_raised">>)
        ELSE Branch([success |-> TRUE, risk_level |-> "high",
                     action_taken |-> "doctor_called",
                     hospital |-> nearest_hospital,
                     emergency_notification_id |-> Len(ens) + 1,
                     patient_message |-> patient_message.value],
                    ens2,
                    Append(ns, NewNotification(Len(ns) + 1, p,
                                   patient_message.value, "high", now)),
                    nearest_hospital,
                    steps2 \o <<"notification_persisted">>)

handle_high_risk(p, nearest_hospital, ens, ns, fails, now) ==
    IF nearest_hospital = NoFacility
    THEN Branch(create_fallback_notification(p, "high"), ens, ns,
                nearest_hospital,
                IF "find_hospital" \in fails
                THEN <<"find_hospital_raised">> ELSE <<"no_hospital">>)
    ELSE IF "commit_emergency" \in fails
    THEN Branch(create_fallback_notification(p, "high"), ens, ns,
                nearest_hospital, <<"commit_emergency_raised">>)
    ELSE
    LET emergency_notification ==
            NewEmergencyNotification(Len(ens) + 1, p, nearest_hospital,
                generate_high_risk_message(p, nearest_hospital))
        sent == send_doctor_call(emergency_notification, fails, now)
        ens2 == Append(ens, sent.row)
        steps2 == <<"emergency_persisted">> \o sent.steps
        patient_message ==
            MessageService_generate_message(p,
                [risk_level |-> "high", heat_wave_risk |-> FALSE])
    IN  IF sent.raised
        THEN Branch(create_fallback_notification(p, "high"), ens2, ns,
                    nearest_hospital, steps2)
        ELSE IF patient_message.raised
        THEN Branch(create_fallback_notification(p, "high"), ens2, ns,
                    nearest_hospital, steps2 \o <<"generate_message_raised">>)
        ELSE IF "commit_notification" \in fails
        THEN Branch(create_fallback_notification(p, "high"), ens2, ns,
                    nearest_hospital, steps2 \o <<"commit_notification_raised">>)
        ELSE Branch([success |-> TRUE, risk_level |-> "high",
                     action_taken |-> "doctor_called",
                     hospital |-> nearest_hospital,
                     emergency_notification_id |-> Len(ens) + 1,
                     patient_message |-> patient_message.value],
                    ens2,
                    Append(ns, NewNotification(Len(ns) + 1, p,
                                   patient_message.value, "high", now)),
                    nearest_hospital,
                    steps2 \o <<"notification_persisted">>)

handle_medium_risk(p, nearest_clinic, ens, ns, fails, now) ==
    LET message ==
            MessageService_generate_message(p,
                [risk_level |-> "medium", heat_wave_risk |-> FALSE])
    IN  IF message.raised
        THEN Branch(create_fallback_notification(p, "medium"), ens, ns,
                    NoFacility, <<"generate_message_raised">>)
        ELSE IF "commit_notification" \in fails
        THEN Branch(create_fallback_notification(p, "medium"), ens, ns,
                    NoFacility, <<"commit_notification_raised">>)
        ELSE Branch([success |-> TRUE, risk_level |-> "medium",
                     action_taken |-> "enhanced_notification_sent",
                     message |-> message.value,
                     clinic |-> nearest_clinic],
                    ens,
                    Append(ns, NewNotification(Len(ns) + 1, p,
                                   message.value, "medium", now)),
                    nearest_clinic,
                    <<"notification_persisted">>
                    \o (IF "find_clinic" \in fails
                        THEN <<"find_clinic_raised">> ELSE <<"find_clinic">>))

handle_low_risk(p, ens, ns, fails, now) ==
    LET message ==
            MessageService_generate_message(p,
                [risk_level |-> "low", heat_wave_risk |-> FALSE])
    IN  IF message.raised
        THEN Branch(create_fallback_notification(p, "low"), ens, ns,
                    NoFacility, <<"generate_message_raised">>)
        ELSE IF "commit_notification" \in fails
        THEN Branch(create_fallback_notification(p, "low"), ens, ns,
                    NoFacility, <<"commit_notification_raised">>)
        ELSE Branch([success |-> TRUE, risk_level |-> "low",
                     action_taken |-> "standard_notification_sent",
                     message |-> message.value],
                    ens,
                    Append(ns, NewNotification(Len(ns) + 1, p,
                                   message.value, "low", now)),
                    NoFacility,
                    <<"notification_persisted">>)

\* Patient.get_risk_level: exceptions of assess_risk pass through
get_risk_level(p, w) == assess_risk(p, w)

(***************************************************************************)
(* The requests.                                                           *)
(***************************************************************************)
PatientIds == {1, 2}

\* objects as the store returns them, and objects that carry `trimester`
EscalationPatients ==
    { [BasePatient EXCEPT !.has_trimester = FALSE, !.trimester = 0,
                          !.age = 19, !.weeks_pregnant = 30,
                          !.pregnancy_icd10 = <<"O","1","4">>],
      BasePatient,
      [BasePatient EXCEPT !.age = 19, !.trimester = 3, !.weeks_pregnant = 30],
      [BasePatient EXCEPT !.age = 19, !.trimester = 3, !.weeks_pregnant = 30,
                          !.pregnancy_icd10 = <<"O","1","4">>] }

Init ==
    /\ patient \in EscalationPatients
    /\ facilities \in FacilityConfigs
    /\ emergency_notifications = <<>>
    /\ notifications = <<>>
    /\ risk_assessments = <<>>
    /\ clock = 0
    /\ assessment = NoAssessment
    /\ outcome = NoOutcome

\* NotificationService.process_risk_notification(patient_id)
ProcessRiskNotification ==
    /\ clock < MaxRequests
    /\ \E patient_id \in PatientIds, w \in EscalationWeather,
          fails \in FailScenarios :
         \E risk \in {get_risk_level(patient, w)} :
         LET now == clock + 1
             found == patient_id = patient.id
         IN  /\ clock' = now
             /\ IF ~found
                THEN /\ UNCHANGED <<assessment, emergency_notifications,
                                    notifications>>
                     /\ outcome' = [op |-> "process_risk_notification",
                                    patient_id |-> patient_id,
                                    raised |-> TRUE,
                                    exception |-> "ExternalAPIException",
                                    cause |-> "NotFound"]
                ELSE /\ assessment' = [called |-> TRUE, weather |-> w,
                                       ret |-> risk]
                     /\ IF risk.raised
                        THEN /\ UNCHANGED <<emergency_notifications,
                                            notifications>>
                             /\ outcome' = [op |-> "process_risk_notification",
                                            patient_id |-> patient_id,
                                            raised |-> TRUE,
                                            exception |-> "ExternalAPIException",
                                            cause |-> risk.exception]
                        ELSE \E hospital \in find_nearest_hospital(facilities,
                                                "find_hospital" \in fails),
                                clinic \in find_nearest_clinic(facilities,
                                                "find_clinic" \in fails) :
                             LET b == IF risk.risk_level = "high"
                                      THEN handle_high_risk(patient, hospital,
                                               emergency_notifications,
                                               notifications, fails, now)
                                      ELSE IF risk.risk_level = "medium"
                                      THEN handle_medium_risk(patient, clinic,
                                               emergency_notifications,
                                               notifications, fails, now)
                                      ELSE handle_low_risk(patient,
                                               emergency_notifications,
                                               notifications, fails, now)
                             IN  /\ emergency_notifications' =
                                        b.emergency_notifications
                                 /\ notifications' = b.notifications
                                 /\ outcome' = [op |-> "process_risk_notification",
                                                patient_id |-> patient_id,
                                                raised |-> FALSE,
                                                risk_level |-> risk.risk_level,
                                                result |-> b.result,
                                                facility |-> b.facility,
                                                steps |-> b.steps,
                                                emergency_before |->
                                                    Len(emergency_notifications),
                                                notifications_before |->
                                                    Len(notifications)]
    /\ UNCHANGED <<patient, facilities, risk_assessments>>

ResponseMessages == {"None", "", "On our way"}

\* `if response_message:` of update_emergency_notification
Truthy(response_message) == response_message \notin {"None", ""}

\* NotificationService.update_emergency_notification(notification_id, ...)
UpdateEmergencyNotification ==
    /\ clock < MaxRequests
    /\ \E notification_id \in 1..(Len(emergency_notifications) + 1),
          response_message \in ResponseMessages,
          commit_fails \in BOOLEAN :
         LET now == clock + 1
             found == notification_id \in DOMAIN emergency_notifications
             row == emergency_notifications[notification_id]
             changed == IF Truthy(response_message)
                        THEN add_response(row, response_message, now)
                        ELSE mark_as_delivered(row, now)
         IN  /\ clock' = now
             /\ IF found /\ ~commit_fails
                THEN /\ emergency_notifications' =
                            [emergency_notifications EXCEPT
                                ![notification_id] = changed]
                     /\ outcome' = [op |-> "update_emergency_notification",
                                    notification_id |-> notification_id,
                                    response_message |-> response_message,
                                    raised |-> FALSE, before |-> row,
                                    result |-> changed]
                ELSE /\ UNCHANGED emergency_notifications
                     /\ outcome' = [op |-> "update_emergency_notification",
                                    notification_id |-> notification_id,
                                    response_message |-> response_message,
                                    raised |-> TRUE,
                                    exception |-> "ExternalAPIException"]
    /\ UNCHANGED <<patient, facilities, notifications, risk_assessments,
                   assessment>>

Next == ProcessRiskNotification \/ UpdateEmergencyNotification

Spec == Init /\ [][Next]_vars


(***************************************************************************)
(* RiskAssessment (app/models/risk_assessment.py) and the assessments      *)
(* endpoints (app/api/assessments.py).  The two Text columns hold JSON.    *)
(* json.dumps is modelled down to the token sequence of the text and       *)
(* json.loads as the parser of that sequence; a loaded value carries its   *)
(* Python type in `t`.  An empty sequence is None in a Text column.        *)
(***************************************************************************)
MaxAssessments == 2

Punct(c) == [k |-> "punct", v |-> c]
StrToken(text) == [k |-> "str", v |-> text]

\* json.dumps of a str, a bool, an int
DumpStr(text) == <<StrToken(text)>>
DumpBool(b) == <<[k |-> "lit", v |-> IF b THEN "true" ELSE "false"]>>
DumpNum(n) == <<[k |-> "num", v |-> n]>>

\* json.dumps of a list of str
RECURSIVE DumpElements(_)
DumpElements(items) ==
    IF items = <<>> THEN <<>>
    ELSE DumpStr(Head(items))
         \o (IF Tail(items) = <<>> THEN <<>>
             ELSE <<Punct(",")>> \o DumpElements(Tail(items)))

DumpList(items) == <<Punct("[")>> \o DumpElements(items) \o <<Punct("]")>>

\* json.dumps of a dict, its members given as <<key, tokens of the value>>
RECURSIVE DumpMembers(_)
DumpMembers(members) ==
    IF members = <<>> THEN <<>>
    ELSE <<StrToken(Head(members)[1]), Punct(":")>> \o Head(members)[2]
         \o (IF Tail(members) = <<>> THEN <<>>
             ELSE <<Punct(",")>> \o DumpMembers(Tail(members)))

DumpObject(members) == <<Punct("{")>> \o DumpMembers(members) \o <<Punct("}")>>

\* the keys of `factors` in the order assess_risk inserts them
FactorKeys ==
    <<"age_risk", "trimester_risk", "location_risk", "heat_wave",
      "conditions_risk", "conditions_details", "medications_risk",
      "medications_details", "age_group_risk">>

\* the members of the factors dict: levels are str, heat_wave is bool, the
\* two details are lists of str
RECURSIVE FactorMembers(_, _)
FactorMembers(factors, keys) ==
    IF keys = <<>> THEN <<>>
    ELSE LET key == Head(keys)
             tokens == IF key = "heat_wave" THEN DumpBool(factors[key])
                       ELSE IF key \in {"conditions_details", "medications_details"}
                       THEN DumpList(factors[key])
                       ELSE DumpStr(factors[key])
         IN  (IF key \in DOMAIN factors THEN << <<key, tokens>> >> ELSE <<>>)
             \o FactorMembers(factors, Tail(keys))

json_dumps_factors(factors) == DumpObject(FactorMembers(factors, FactorKeys))

json_dumps_weather(weather) ==
    DumpObject(<< <<"temperature", DumpNum(weather.temperature)>>,
                  <<"humidity", DumpNum(weather.humidity)>>,
                  <<"description", DumpStr(weather.description)>>,
                  <<"is_heat_wave", DumpBool(weather.is_heat_wave)>> >>)

\* json.loads: the value starting at token i and the index after it
RECURSIVE ParseValue(_, _)
RECURSIVE ParseElements(_, _, _)
RECURSIVE ParseMembers(_, _, _)
ParseValue(tokens, i) ==
    LET tok == tokens[i]
    IN  IF tok.k = "str"
        THEN [value |-> [t |-> "str", v |-> tok.v], next |-> i + 1]
        ELSE IF tok.k = "num"
        THEN [value |-> [t |-> "int", v |-> tok.v], next |-> i + 1]
        ELSE IF tok.k = "lit"
        THEN [value |-> [t |-> "bool", v |-> (tok.v = "true")], next |-> i + 1]
        ELSE IF tok.v = "["
        THEN IF tokens[i + 1].k = "punct" /\ tokens[i + 1].v = "]"
             THEN [value |-> [t |-> "list", v |-> <<>>], next |-> i + 2]
             ELSE ParseElements(tokens, i + 1, <<>>)
        ELSE IF tokens[i + 1].k = "punct" /\ tokens[i + 1].v = "}"
             THEN [value |-> [t |-> "dict", v |-> <<>>], next |-> i + 2]
             ELSE ParseMembers(tokens, i + 1, <<>>)

ParseElements(tokens, i, acc) ==
    LET e == ParseValue(tokens, i)
        items == Append(acc, e.value)
    IN  IF tokens[e.next].v = ","
        THEN ParseElements(tokens, e.next + 1, items)
        ELSE [value |-> [t |-> "list", v |-> items], next |-> e.next + 1]

\* a repeated key keeps its last value
ParseMembers(tokens, i, acc) ==
    LET key == tokens[i].v
        m == ParseValue(tokens, i + 2)
        members == (key :> m.value) @@ acc
    IN  IF tokens[m.next].v = ","
        THEN ParseMembers(tokens, m.next + 1, members)
        ELSE [value |-> [t |-> "dict", v |-> members], next |-> m.next + 1]

json_loads(tokens) == ParseValue(tokens, 1).value

EmptyDict == [t |-> "dict", v |-> <<>>]

\* RiskAssessment.set_risk_factors: the text stored in risk_factors
set_risk_factors(factors) ==
    IF DOMAIN factors # {} THEN json_dumps_factors(factors) ELSE <<>>

\* RiskAssessment.get_risk_factors.  The column is written by
\* set_risk_factors only, so the JSONDecodeError branch is never taken.
get_risk_factors(row) ==
    IF row.risk_factors # <<>> THEN json_loads(row.risk_factors) ELSE EmptyDict

\* RiskAssessment.set_weather_data / get_weather_data
set_weather_data(weather) == json_dumps_weather(weather)

RiskAssessment_get_weather_data(row) ==
    IF row.weather_data # <<>> THEN json_loads(row.weather_data) ELSE EmptyDict

RiskAssessment_to_dict(row) ==
    [id |-> row.id, patient_id |-> row.patient_id,
     risk_level |-> row.risk_level, heat_wave_risk |-> row.heat_wave_risk,
     risk_factors |-> get_risk_factors(row), risk_score |-> row.risk_score,
     weather_data |-> RiskAssessment_get_weather_data(row),
     assessment_date |-> row.assessment_date]

\* the patients the endpoints are run for: a stored row (no `trimester`),
\* and objects carrying it, with and without diagnoses, medications, flag
RecordInputs ==
    { [BasePatient EXCEPT !.has_trimester = FALSE, !.age = 19,
                          !.weeks_pregnant = 30,
                          !.pregnancy_icd10 = <<"O","1","4">>],
      BasePatient,
      [BasePatient EXCEPT !.age = 19, !.trimester = 3, !.weeks_pregnant = 30,
                          !.pregnancy_icd10 = <<"O","1","4">>],
      [BasePatient EXCEPT !.age = 40, !.between_17_35 = "False",
                          !.comorbidity_icd10 = <<"I","1","0">>],
      [BasePatient EXCEPT !.between_17_35 = "None",
                          !.medications =
                              <<"I","n","s","u","l","i","n"," ","1","0","m","g",
                                ";"," ","F","o","l","i","c"," ","a","c","i","d">>],
      [BasePatient EXCEPT !.has_between_17_35 = FALSE,
                          !.between_17_35 = "None", !.trimester = 1,
                          !.pregnancy_icd10 = <<"O","9","9">>,
                          !.comorbidity_icd10 = <<"E","6","6",".","0">>] }

InitRecord ==
    /\ patient \in RecordInputs
    /\ facilities = {}
    /\ emergency_notifications = <<>>
    /\ notifications = <<>>
    /\ risk_assessments = <<>>
    /\ clock = 0
    /\ assessment = NoAssessment
    /\ outcome = NoOutcome

\* variant: one row per patient, rewritten by every later assessment
AssessRiskRequest_Upsert ==
    /\ clock < MaxRequests
    /\ Len(risk_assessments) < MaxAssessments
    /\ \E patient_id \in PatientIds, w \in EscalationWeather,
          commit_fails \in BOOLEAN :
         \E risk_data \in {assess_risk(patient, w)} :
         LET now == clock + 1
             found == patient_id = patient.id
             risk_assessment ==
                 [id |-> Len(risk_assessments) + 1,
                  patient_id |-> patient.id,
                  risk_level |-> risk_data.risk_level,
                  heat_wave_risk |-> risk_data.heat_wave_risk,
                  risk_score |-> risk_data.risk_score,
                  risk_factors |-> set_risk_factors(risk_data.factors),
                  weather_data |-> set_weather_data(risk_data.weather_data),
                  assessment_date |-> now]
             failed(cause) == [op |-> "assess_risk", patient_id |-> patient_id,
                               status |-> 500, cause |-> cause]
         IN  /\ clock' = now
             /\ IF ~found
                THEN /\ UNCHANGED <<assessment, risk_assessments>>
                     /\ outcome' = failed("NotFound")
                ELSE /\ assessment' = [called |-> TRUE, weather |-> w,
                                       ret |-> risk_data]
                     /\ IF risk_data.raised
                        THEN /\ UNCHANGED risk_assessments
                             /\ outcome' = failed(risk_data.exception)
                        ELSE IF commit_fails
                        THEN /\ UNCHANGED risk_assessments
                             /\ outcome' = failed("commit")
                        ELSE /\ risk_assessments' =
                                    IF risk_assessments = <<>>
                                    THEN <<risk_assessment>>
                                    ELSE [risk_assessments EXCEPT
                                             ![Len(risk_assessments)] =
                                                 [risk_assessment EXCEPT
                                                     !.id = @ - 1]]
                             /\ outcome' = failed("AttributeError")
    /\ UNCHANGED <<patient, facilities, emergency_notifications, notifications>>

\* POST /assess-risk/<patient_id>.  MessageService has no
\* create_notification: the call after the commit raises AttributeError and
\* the handler answers 500 with the row already committed.
AssessRiskRequest ==
    /\ clock < MaxRequests
    /\ Len(risk_assessments) < MaxAssessments
    /\ \E patient_id \in PatientIds, w \in EscalationWeather,
          commit_fails \in BOOLEAN :
         \E risk_data \in {assess_risk(patient, w)} :
         LET now == clock + 1
             found == patient_id = patient.id
             risk_assessment ==
                 [id |-> Len(risk_assessments) + 1,
                  patient_id |-> patient.id,
                  risk_level |-> risk_data.risk_level,
                  heat_wave_risk |-> risk_data.heat_wave_risk,
                  risk_score |-> risk_data.risk_score,
                  risk_factors |-> set_risk_factors(risk_data.factors),
                  weather_data |-> set_weather_data(risk_data.weather_data),
                  assessment_date |-> now]
             failed(cause) == [op |-> "assess_risk", patient_id |-> patient_id,
                               status |-> 500, cause |-> cause]
         IN  /\ clock' = now
             /\ IF ~found
                THEN /\ UNCHANGED <<assessment, risk_assessments>>
                     /\ outcome' = failed("NotFound")
                ELSE /\ assessment' = [called |-> TRUE, weather |-> w,
                                       ret |-> risk_data]
                     /\ IF risk_data.raised
                        THEN /\ UNCHANGED risk_assessments
                             /\ outcome' = failed(risk_data.exception)
                        ELSE IF commit_fails
                        THEN /\ UNCHANGED risk_assessments
                             /\ outcome' = failed("commit")
                        ELSE /\ risk_assessments' =
                                    Append(risk_assessments, risk_assessment)
                             /\ outcome' = failed("AttributeError")
    /\ UNCHANGED <<patient, facilities, emergency_notifications, notifications>>

\* GET /risk/<patient_id>: the latest row of the patient through to_dict
GetRiskAssessmentRequest ==
    /\ clock < MaxRequests
    /\ \E patient_id \in PatientIds :
         LET found == patient_id = patient.id
             mine == SelectSeq(risk_assessments,
                               LAMBDA r : r.patient_id = patient_id)
         IN  outcome' =
                IF ~found
                THEN [op |-> "get_risk_assessment", patient_id |-> patient_id,
                      status |-> 500]
                ELSE IF mine = <<>>
                THEN [op |-> "get_risk_assessment", patient_id |-> patient_id,
                      status |-> 404]
                ELSE [op |-> "get_risk_assessment", patient_id |-> patient_id,
                      status |-> 200,
                      assessment |-> RiskAssessment_to_dict(mine[Len(mine)])]
    /\ clock' = clock + 1
    /\ UNCHANGED <<patient, facilities, emergency_notifications, notifications,
                   risk_assessments, assessment>>

NextRecord == AssessRiskRequest \/ GetRiskAssessmentRequest

SpecRecord == InitRecord /\ [][NextRecord]_vars

\* PatientUpdateSchema: the fields a PUT may carry and their validation
\* (age 17..45, weeks_pregnant 1..42, trimester one of 1, 2, 3)
UpdatePayloads ==
    { [field |-> "age", value |-> 16],
      [field |-> "age", value |-> 36],
      [field |-> "weeks_pregnant", value |-> 10],
      [field |-> "trimester", value |-> 2] }

PatientUpdateSchema_load(data) ==
    CASE data.field = "age" -> data.value >= 17 /\ data.value <= 45
      [] data.field = "weeks_pregnant" -> data.value >= 1 /\ data.value <= 42
      [] data.field = "trimester" -> data.value \in {1, 2, 3}
      [] OTHER -> FALSE

\* the loop of update_patient: setattr for a field the object has
update_fields(p, data) ==
    CASE data.field = "age" -> [p EXCEPT !.age = data.value]
      [] data.field = "weeks_pregnant" ->
             [p EXCEPT !.weeks_pregnant = data.value]
      [] data.field = "trimester" /\ p.has_trimester ->
             [p EXCEPT !.trimester = data.value]
      [] OTHER -> p

\* PUT /patients/<patient_id>
UpdatePatientRequest ==
    /\ clock < MaxRequests
    /\ \E patient_id \in PatientIds, data \in UpdatePayloads,
          commit_fails \in BOOLEAN :
         LET found == patient_id = patient.id
             answer(status) == [op |-> "update_patient",
                                patient_id |-> patient_id,
                                data |-> data, status |-> status]
         IN  IF ~found
             THEN /\ UNCHANGED patient
                  /\ outcome' = answer(500)
             ELSE IF ~PatientUpdateSchema_load(data)
             THEN /\ UNCHANGED patient
                  /\ outcome' = answer(400)
             ELSE IF commit_fails
             THEN /\ UNCHANGED patient
                  /\ outcome' = answer(500)
             ELSE /\ patient' = update_fields(patient, data)
                  /\ outcome' = answer(200)
    /\ clock' = clock + 1
    /\ UNCHANGED <<facilities, emergency_notifications, notifications,
                   risk_assessments, assessment>>

\* every operation that runs while assessments are on record
NextHistory ==
    \/ AssessRiskRequest
    \/ GetRiskAssessmentRequest
    \/ UpdatePatientRequest
    \/ ProcessRiskNotification
    \/ UpdateEmergencyNotification

\* two patients whose assessments return, so that rows get on record
HistoryInputs ==
    { BasePatient,
      [BasePatient EXCEPT !.age = 19, !.trimester = 3, !.weeks_pregnant = 30,
                          !.pregnancy_icd10 = <<"O","1","4">>] }

InitHistory ==
    /\ patient \in HistoryInputs
    /\ facilities = {}
    /\ emergency_notifications = <<>>
    /\ notifications = <<>>
    /\ risk_assessments = <<>>
    /\ clock = 0
    /\ assessment = NoAssessment
    /\ outcome = NoOutcome

SpecHistory == InitHistory /\ [][NextHistory]_vars

(***************************************************************************)
(* Composing a message: generate_personalized_message applied to a patient *)
(* and a risk context, with the generative capability answering, missing   *)
(* its key or failing.                                                     *)
(***************************************************************************)
RiskLevels == {"high", "medium", "low"}

\* the dicts the escalation branches pass (notification_service.py:66-70,
\* 99-103, 135-139)
EscalationContexts ==
    { [risk_level |-> l, heat_wave_risk |-> FALSE,
       factors |-> [risk_level |-> l]] : l \in RiskLevels }

\* the dict assess_risk returns, for the patients of the escalation runs
AssessmentContexts ==
    { [risk_level |-> r.risk_level, heat_wave_risk |-> r.heat_wave_risk,
       risk_score |-> r.risk_score, factors |-> r.factors,
       weather_data |-> r.weather_data] :
      r \in { a \in { assess_risk(p, w) : p \in EscalationPatients,
                                          w \in EscalationWeather } :
              ~a.raised } }

\* a context that also carries the trimester_risk key the method reads
TrimesterContexts ==
    { [risk_level |-> c.risk_level, heat_wave_risk |-> c.heat_wave_risk,
       risk_score |-> c.risk_score, factors |-> c.factors,
       weather_data |-> c.weather_data,
       trimester_risk |-> c.factors["trimester_risk"]] :
      c \in AssessmentContexts }

RiskContexts == EscalationContexts \cup AssessmentContexts \cup TrimesterContexts

MessagePatients ==
    EscalationPatients
    \cup { [BasePatient EXCEPT !.name = <<>>],
           [BasePatient EXCEPT !.has_get_conditions = FALSE] }

InitMessage ==
    /\ patient \in MessagePatients
    /\ facilities = {}
    /\ emergency_notifications = <<>>
    /\ notifications = <<>>
    /\ risk_assessments = <<>>
    /\ clock = 0
    /\ assessment = NoAssessment
    /\ outcome = NoOutcome

GeneratePersonalizedMessage ==
    /\ \E risk_assessment \in RiskContexts, gemini \in GeminiOutcomes :
         outcome' = [op |-> "generate_personalized_message",
                     risk_assessment |-> risk_assessment,
                     gemini |-> gemini,
                     ret |-> generate_personalized_message(patient,
                                 risk_assessment, gemini)]
    /\ UNCHANGED <<patient, facilities, emergency_notifications, notifications,
                   risk_assessments, clock, assessment>>

NextMessage == GeneratePersonalizedMessage

SpecMessage == InitMessage /\ [][NextMessage]_vars


(***************************************************************************)
(* Properties.                                                             *)
(***************************************************************************)
Range(seq) == { seq[i] : i \in DOMAIN seq }

\* the last request was an escalation of the stored patient
Escalated ==
    /\ outcome.op = "process_risk_notification"
    /\ outcome.patient_id = patient.id

\* the escalation ran its assessment and the assessment returned `level`
EscalatedAt(level) ==
    /\ Escalated
    /\ assessment.called
    /\ ~assessment.ret.raised
    /\ assessment.ret.risk_level = level

\* step names that record a lookup or a commit raising
InjectedFailures ==
    {"find_hospital_raised", "commit_emergency_raised", "mark_as_sent_raised",
     "mark_as_failed_raised", "commit_notification_raised",
     "find_clinic_raised"}

\* no facility row is a hospital type with a phone number
NoHospitalWithPhone ==
    \A f \in facilities :
        ~(f.short_description \in {"HOSP", "HOSP-EC"}
          /\ f.facility_phone_number # "None")

\* C1: when the assessed level is high and no hospital-type facility with a
\* phone number is available (no such row, or the lookup raised), the
\* escalation does not raise and returns action_taken =
\* fallback_notification with risk_level = high.
C1_HighRiskWithoutHospitalFallsBack ==
    EscalatedAt("high") =>
        /\ ~outcome.raised
        /\ (NoHospitalWithPhone \/ "find_hospital_raised" \in Range(outcome.steps))
            => /\ outcome.result.success
               /\ outcome.result.action_taken = "fallback_notification"
               /\ outcome.result.risk_level = "high"
               /\ outcome.facility = NoFacility

C1_Witness ==
    /\ EscalatedAt("high")
    /\ ~outcome.raised
    /\ NoHospitalWithPhone
    /\ facilities # {}
    /\ outcome.steps = <<"no_hospital">>
    /\ outcome.result.action_taken = "fallback_notification"

\* C2: for every existing patient the escalation returns a result and never
\* raises past its own boundary.
C2_EscalationNeverRaises ==
    Escalated => ~outcome.raised

\* C3: level high, a hospital-type facility with a phone number found and
\* no lookup or commit failing: exactly one EmergencyNotification
\* (doctor_call, critical) is created and marked sent, one Notification
\* with risk level high is created, and the result is doctor_called with
\* the facility and the id of the emergency notification.
C3_HighRiskCallsDoctor ==
    ( /\ EscalatedAt("high")
      /\ ~outcome.raised
      /\ outcome.facility # NoFacility
      /\ Range(outcome.steps) \cap InjectedFailures = {} )
    => /\ outcome.result.action_taken = "doctor_called"
       /\ outcome.result.hospital = outcome.facility
       /\ Len(emergency_notifications) = outcome.emergency_before + 1
       /\ outcome.result.emergency_notification_id = Len(emergency_notifications)
       /\ LET n == emergency_notifications[Len(emergency_notifications)]
          IN  /\ n.notification_type = "doctor_call"
              /\ n.priority = "critical"
              /\ n.status = "sent"
              /\ n.patient_id = patient.id
       /\ Len(notifications) = outcome.notifications_before + 1
       /\ notifications[Len(notifications)].risk_level = "high"

\* C4: whenever the escalation returns a result, whichever branch produced
\* it, the call has persisted at least one Notification for that patient.
C4_EveryPathCreatesNotification ==
    (Escalated /\ ~outcome.raised)
    => /\ Len(notifications) > outcome.notifications_before
       /\ notifications[Len(notifications)].patient_id = patient.id

AllowedTransitions ==
    { <<"pending", "sent">>, <<"sent", "delivered">>,
      <<"pending", "failed">>, <<"sent", "failed">> }

\* C5: the status of an EmergencyNotification changes only by
\* pending->sent, sent->delivered, pending->failed or sent->failed.
C5_OnlyAllowedTransitions ==
    [][ \A i \in DOMAIN emergency_notifications :
          emergency_notifications'[i].status # emergency_notifications[i].status
          => <<emergency_notifications[i].status,
               emergency_notifications'[i].status>> \in AllowedTransitions ]_vars

\* C6: no transition is reversible: a delivered or failed notification
\* never changes status again, a sent one never returns to pending.
C6_NoTransitionReversible ==
    [][ \A i \in DOMAIN emergency_notifications :
          /\ emergency_notifications[i].status \in {"delivered", "failed"}
             => emergency_notifications'[i].status
                = emergency_notifications[i].status
          /\ emergency_notifications[i].status = "sent"
             => emergency_notifications'[i].status # "pending" ]_vars

\* the last scoring run returned
Assessed == assessment.called /\ ~assessment.ret.raised

\* the numeric sub-scores the run added, from the patient and the exchange
AgeScore == calculate_age_risk(patient.age).score
TrimesterScore == calculate_trimester_risk(patient.trimester).score
LocationScore == LocationStep(assessment.weather).score
ConditionsScore == calculate_conditions_risk(patient).score
MedicationsScore == calculate_medications_risk(patient).score
AgeGroupScore ==
    IF "age_group_risk" \in DOMAIN assessment.ret.factors
    THEN calculate_age_group_risk(patient.between_17_35).score ELSE 0

\* what one factor contributed: the total less the other five
LocationContribution ==
    assessment.ret.risk_score
    - (AgeScore + TrimesterScore + ConditionsScore + MedicationsScore
       + AgeGroupScore)

ConditionsContribution ==
    assessment.ret.risk_score
    - (AgeScore + TrimesterScore + LocationScore + MedicationsScore
       + AgeGroupScore)

MedicationsContribution ==
    assessment.ret.risk_score
    - (AgeScore + TrimesterScore + LocationScore + ConditionsScore
       + AgeGroupScore)

\* C7: whenever the weather lookup fails (timeout, connection error or
\* non-success response) the run uses the snapshot with temperature 25 and
\* no heat wave, sets the location factor to medium and adds exactly 1.
C7_LookupFailureScoresMedium ==
    ( /\ Assessed
      /\ assessment.weather.kind \in {"timeout", "connection_error", "bad_status"} )
    => /\ assessment.ret.weather_data.temperature = 25
       /\ assessment.ret.weather_data.is_heat_wave = FALSE
       /\ assessment.ret.heat_wave_risk = FALSE
       /\ assessment.ret.factors["location_risk"] = "medium"
       /\ LocationContribution = 1

\* C8: a patient whose only diagnosis is one known high-risk pregnancy code
\* (no comorbidity code) has conditions sub-score 2, contributing exactly 2.
C8_SingleHighRiskPregnancyCodeScoresTwo ==
    ( /\ Assessed
      /\ patient.pregnancy_icd10 \in HIGH_RISK_PREGNANCY_CODES
      /\ patient.comorbidity_icd10 = <<>> )
    => /\ calculate_conditions_risk(patient).score = 2
       /\ ConditionsContribution = 2

\* the entries of MedicationInputs that contain, case-insensitively, a name
\* of the high-risk table: 'Insulin 10mg', 'insulin', 'Insulin',
\* 'LABETALOL', 'Warfarin', 'Calcium carbs' (c-ARBS)
HighRiskEntries ==
    { <<"I","n","s","u","l","i","n"," ","1","0","m","g">>,
      <<"i","n","s","u","l","i","n">>,
      <<"I","n","s","u","l","i","n">>,
      <<"L","A","B","E","T","A","L","O","L">>,
      <<"W","a","r","f","a","r","i","n">>,
      <<"C","a","l","c","i","u","m"," ","c","a","r","b","s">> }

\* the entries that contain a name of the medium-risk table: 'Folic acid',
\* 'Calcium', 'Vitamin D', 'Calcium carbs'
MediumRiskEntries ==
    { <<"F","o","l","i","c"," ","a","c","i","d">>,
      <<"C","a","l","c","i","u","m">>,
      <<"V","i","t","a","m","i","n"," ","D">>,
      <<"C","a","l","c","i","u","m"," ","c","a","r","b","s">> }

\* each entry on its own: 2 for a high-risk match, else 1 for a medium one
RECURSIVE PerEntryScore(_)
PerEntryScore(entries) ==
    IF entries = <<>> THEN 0
    ELSE (IF Head(entries) \in HighRiskEntries THEN 2
          ELSE IF Head(entries) \in MediumRiskEntries THEN 1 ELSE 0)
         + PerEntryScore(Tail(entries))

\* a medium match counts only while no entry of the patient has matched
\* the high-risk table yet
RECURSIVE PerPatientScore(_, _)
PerPatientScore(entries, high_found) ==
    IF entries = <<>> THEN 0
    ELSE IF Head(entries) \in HighRiskEntries
    THEN 2 + PerPatientScore(Tail(entries), TRUE)
    ELSE IF Head(entries) \in MediumRiskEntries /\ ~high_found
    THEN 1 + PerPatientScore(Tail(entries), high_found)
    ELSE PerPatientScore(Tail(entries), high_found)

\* C9 as stated: an entry matching the high-risk table contributes 2; an
\* entry matching the medium-risk table contributes 1 only if no high-risk
\* match has already been found for that patient.
C9_MediumOnlyBeforeAnyHighMatch ==
    Assessed =>
        MedicationsContribution
        = PerPatientScore(get_medications_list(patient), FALSE)

\* C9 amended: an entry matching the high-risk table by case-insensitive
\* substring contributes 2; an entry matching the medium-risk table
\* contributes 1 if that same entry matched no high-risk name, whatever the
\* patient's other entries matched.
C9_MediumUnlessSameEntryHigh ==
    Assessed =>
        MedicationsContribution = PerEntryScore(get_medications_list(patient))

\* 'Insulin 10mg; Folic acid' scored 3
C9_Witness ==
    /\ Assessed
    /\ get_medications_list(patient)
       = << <<"I","n","s","u","l","i","n"," ","1","0","m","g">>,
            <<"F","o","l","i","c"," ","a","c","i","d">> >>
    /\ MedicationsContribution = 3

\* C10 as stated: age_group_risk is in the breakdown if and only if the
\* flag attribute exists on the patient.
C10_AgeGroupIffAttributeExists ==
    Assessed =>
        (("age_group_risk" \in DOMAIN assessment.ret.factors)
         <=> patient.has_between_17_35)

\* C10 amended: age_group_risk is in the breakdown if and only if the flag
\* attribute exists on the patient and is not None, whether it is true or
\* false.
C10_AgeGroupIffFlagSet ==
    Assessed =>
        (("age_group_risk" \in DOMAIN assessment.ret.factors)
         <=> (patient.has_between_17_35
              /\ patient.between_17_35 \in {"True", "False"}))

\* the flag present and false, the factor in the breakdown
C10_Witness ==
    /\ Assessed
    /\ patient.has_between_17_35
    /\ patient.between_17_35 = "False"
    /\ "age_group_risk" \in DOMAIN assessment.ret.factors
    /\ assessment.ret.factors["age_group_risk"] = "high"


\* C11: the overall level is a function of the total score only: a score of
\* at most 3 is low, 4 or 5 is medium, 6 or more is high.
C11_LevelFromTotalScore ==
    Assessed =>
        /\ assessment.ret.risk_score \in 0..3 => assessment.ret.risk_level = "low"
        /\ assessment.ret.risk_score \in 4..5 => assessment.ret.risk_level = "medium"
        /\ assessment.ret.risk_score >= 6 => assessment.ret.risk_level = "high"
        /\ assessment.ret.risk_score >= 0

\* a total on the upper boundary of medium, classified medium
C11_Witness ==
    /\ Assessed
    /\ assessment.ret.risk_score = 5
    /\ assessment.ret.risk_level = "medium"

\* C12: age 19, 30 weeks pregnant (trimester 3), pregnancy code O14, no
\* comorbidity, no medications, age-group flag true, assessed during a heat
\* wave: the run returns total 8 (2 + 2 + 2 + 2 + 0 + 0) and level high.
C12_HeatWaveScenarioScoresEight ==
    ( /\ assessment.called
      /\ assessment.weather.kind = "ok"
      /\ assessment.weather.temp > 35
      /\ patient.age = 19
      /\ patient.weeks_pregnant = 30
      /\ patient.has_trimester => patient.trimester = get_trimester(patient)
      /\ patient.pregnancy_icd10 = <<"O","1","4">>
      /\ patient.comorbidity_icd10 = <<>>
      /\ patient.medications = <<>>
      /\ patient.has_between_17_35
      /\ patient.between_17_35 = "True" )
    => /\ ~assessment.ret.raised
       /\ assessment.ret.risk_score = 8
       /\ assessment.ret.risk_level = "high"

\* the factors of the breakdown that carry a numeric sub-score
ScoredFactors ==
    {"age_risk", "trimester_risk", "location_risk", "conditions_risk",
     "medications_risk", "age_group_risk"}

SubScore(key) ==
    CASE key = "age_risk" -> AgeScore
      [] key = "trimester_risk" -> TrimesterScore
      [] key = "location_risk" -> LocationScore
      [] key = "conditions_risk" -> ConditionsScore
      [] key = "medications_risk" -> MedicationsScore
      [] key = "age_group_risk" -> AgeGroupScore

\* a loaded value that gives the number n, as itself or as its `score`
HoldsScore(value, n) ==
    \/ value.t = "int" /\ value.v = n
    \/ /\ value.t = "dict"
       /\ "score" \in DOMAIN value.v
       /\ value.v["score"].t = "int"
       /\ value.v["score"].v = n

\* the last request read back the record stored from the last scoring run
ReadBackOfLastAssessment ==
    /\ outcome.op = "get_risk_assessment"
    /\ outcome.status = 200
    /\ Assessed
    /\ risk_assessments[Len(risk_assessments)].weather_data
       = set_weather_data(assessment.ret.weather_data)

\* C13: a breakdown stored in a RiskAssessment record and read back gives
\* every factor's numeric sub-score and the overall level as the scoring
\* run computed them.
C13_RecordReproducesSubScores ==
    ReadBackOfLastAssessment =>
        /\ outcome.assessment.risk_level = assessment.ret.risk_level
        /\ \A key \in ScoredFactors \cap DOMAIN assessment.ret.factors :
              /\ key \in DOMAIN outcome.assessment.risk_factors.v
              /\ HoldsScore(outcome.assessment.risk_factors.v[key],
                            SubScore(key))

\* C14: level medium: a message is composed, one Notification with risk
\* level medium is created and the result is enhanced_notification_sent; no
\* clinic-type facility, or a failed clinic lookup, only makes the clinic of
\* the result null.
C14_MediumRiskEnhancedNotification ==
    ( /\ EscalatedAt("medium")
      /\ ~outcome.raised
      /\ "commit_notification_raised" \notin Range(outcome.steps) )
    => /\ outcome.result.action_taken = "enhanced_notification_sent"
       /\ outcome.result.risk_level = "medium"
       /\ Len(notifications) = outcome.notifications_before + 1
       /\ notifications[Len(notifications)].risk_level = "medium"
       /\ notifications[Len(notifications)].patient_id = patient.id
       /\ outcome.facility = NoFacility => outcome.result.clinic = NoFacility

\* C15: level low: a standard message is composed, exactly one Notification
\* with risk level low is created, no EmergencyNotification is created, and
\* the result is standard_notification_sent with the message text.
C15_LowRiskStandardNotification ==
    ( /\ EscalatedAt("low")
      /\ ~outcome.raised
      /\ "commit_notification_raised" \notin Range(outcome.steps) )
    => /\ outcome.result.action_taken = "standard_notification_sent"
       /\ outcome.result.risk_level = "low"
       /\ Len(notifications) = outcome.notifications_before + 1
       /\ notifications[Len(notifications)].risk_level = "low"
       /\ notifications[Len(notifications)].message = outcome.result.message
       /\ Len(emergency_notifications) = outcome.emergency_before

\* the last request attached a response message to a notification
ResponseAttached ==
    /\ outcome.op = "update_emergency_notification"
    /\ ~outcome.raised
    /\ outcome.response_message \notin {"None", ""}

\* C16: attaching a response sets response_received, response_message and
\* response_received_at and leaves status, sent_at and delivered_at as they
\* were, in whatever state the notification is.
C16_ResponseLeavesStatus ==
    ResponseAttached =>
        LET before == outcome.before
            after == emergency_notifications[outcome.notification_id]
        IN  /\ after = outcome.result
            /\ after.response_received = TRUE
            /\ after.response_message = outcome.response_message
            /\ after.response_received_at = clock
            /\ after.status = before.status
            /\ after.sent_at = before.sent_at
            /\ after.delivered_at = before.delivered_at

\* a response attached to a notification that was already delivered
C16_Witness ==
    /\ ResponseAttached
    /\ outcome.before.status = "delivered"
    /\ outcome.result.status = "delivered"
    /\ outcome.result.response_received

\* C17: in every reachable state a sent notification has sent_at set, and
\* a delivered one has both sent_at and delivered_at set.
C17_TimestampsFollowStatus ==
    \A i \in DOMAIN emergency_notifications :
        LET n == emergency_notifications[i]
        IN  /\ n.status = "sent" => n.sent_at # 0
            /\ n.status = "delivered" => (n.sent_at # 0 /\ n.delivered_at # 0)

AgeContribution ==
    assessment.ret.risk_score
    - (TrimesterScore + LocationScore + ConditionsScore + MedicationsScore
       + AgeGroupScore)

TrimesterContribution ==
    assessment.ret.risk_score
    - (AgeScore + LocationScore + ConditionsScore + MedicationsScore
       + AgeGroupScore)

\* C18: the age sub-score is 2 (high) for ages 17..20 and 31..35, 1
\* (medium) for ages 21..30 and 0 (low) for every other age.
C18_AgeSubScore ==
    Assessed =>
        IF patient.age \in (17..20) \cup (31..35)
        THEN AgeContribution = 2 /\ assessment.ret.factors["age_risk"] = "high"
        ELSE IF patient.age \in 21..30
        THEN AgeContribution = 1 /\ assessment.ret.factors["age_risk"] = "medium"
        ELSE AgeContribution = 0 /\ assessment.ret.factors["age_risk"] = "low"

\* the last age of the upper high range
C18_Witness ==
    /\ Assessed
    /\ patient.age = 35
    /\ AgeContribution = 2

\* C19: the trimester sub-score depends on the trimester only: 3 yields 2,
\* 1 yields 1 and 2 yields 0, whatever the other factors of the patient.
C19_TrimesterSubScore ==
    Assessed =>
        /\ patient.trimester = 3 => TrimesterContribution = 2
        /\ patient.trimester = 1 => TrimesterContribution = 1
        /\ patient.trimester = 2 => TrimesterContribution = 0

\* trimester 3 next to non-zero age, conditions and medications sub-scores
C19_Witness ==
    /\ Assessed
    /\ patient.trimester = 3
    /\ TrimesterContribution = 2
    /\ AgeScore > 0 /\ ConditionsScore > 0 /\ MedicationsScore > 0

\* C20: when the lookup succeeds the heat-wave flag is temperature > 35 and
\* the location sub-score is 0 for temperature <= 30, 1 for
\* 30 < temperature <= 35 and 2 for temperature > 35.
C20_LocationSubScore ==
    (Assessed /\ assessment.weather.kind = "ok") =>
        LET temperature == assessment.weather.temp
        IN  /\ assessment.ret.weather_data.temperature = temperature
            /\ assessment.ret.heat_wave_risk = (temperature > 35)
            /\ assessment.ret.factors["heat_wave"] = (temperature > 35)
            /\ temperature <= 30 => LocationContribution = 0
            /\ (30 < temperature /\ temperature <= 35) => LocationContribution = 1
            /\ temperature > 35 => LocationContribution = 2

\* 35 degrees: no heat wave yet, sub-score 1
C20_Witness ==
    /\ Assessed
    /\ assessment.weather.kind = "ok"
    /\ assessment.weather.temp = 35
    /\ LocationContribution = 1
    /\ ~assessment.ret.heat_wave_risk

\* C21: the total returned is the sum of the numeric sub-scores of the
\* factors computed (age, trimester, location, conditions, medications and,
\* when present, age group); conditions and medications enter with their
\* numeric sub-score, not with a value of their classification.
C21_TotalIsSumOfSubScores ==
    Assessed =>
        assessment.ret.risk_score
        = AgeScore + TrimesterScore + LocationScore + ConditionsScore
          + MedicationsScore
          + (IF patient.has_between_17_35 /\ patient.between_17_35 # "None"
             THEN calculate_age_group_risk(patient.between_17_35).score
             ELSE 0)

\* conditions classified medium with sub-score 4, medications classified
\* medium with sub-score 2 or 3: the scores, not the classes, are in the sum
C21_Witness ==
    /\ Assessed
    /\ ConditionsScore = 4
    /\ assessment.ret.factors["conditions_risk"] = "medium"
    /\ MedicationsScore = 2
    /\ assessment.ret.factors["medications_risk"] = "medium"
    /\ assessment.ret.risk_score
       = AgeScore + TrimesterScore + LocationScore + 4 + 2 + AgeGroupScore

\* C23: a RiskAssessment is never changed after its creation: whatever
\* operation runs (an assessment, an escalation, a patient update, a
\* notification operation), every row on record stays on record with the
\* same level, score, factors, weather snapshot and heat-wave flag.
C23_AssessmentsNeverMutated ==
    [][\A i \in DOMAIN risk_assessments :
          /\ i \in DOMAIN risk_assessments'
          /\ risk_assessments'[i] = risk_assessments[i]]_vars

\* a second assessment with another score was stored and the first row is
\* still there as it was written
C23_Witness ==
    /\ Len(risk_assessments) = 2
    /\ risk_assessments[1].assessment_date < risk_assessments[2].assessment_date
    /\ risk_assessments[1].risk_score # risk_assessments[2].risk_score
    /\ risk_assessments[1].id = 1

\* the template _get_default_message selects for a level and a flag
TemplateFor(risk_level, heat_wave_risk) ==
    IF risk_level = "high" /\ heat_wave_risk THEN "high_heat_wave"
    ELSE risk_level

Composed == outcome.op = "generate_personalized_message"

\* C24: when the generative capability is unavailable or fails, composing a
\* message for a context of the escalation branches returns the template
\* text selected by risk level and heat-wave flag, and no failure reaches
\* the caller.
C24_FallbackForEscalationContext ==
    (/\ Composed
     /\ outcome.gemini # "ok"
     /\ outcome.risk_assessment \in EscalationContexts)
    => /\ ~outcome.ret.raised
       /\ outcome.ret.template
          = TemplateFor(outcome.risk_assessment.risk_level,
                        outcome.risk_assessment.heat_wave_risk)

\* C25: for a stored patient the trimester assess scores is the one derived
\* from weeks_pregnant (1 up to 12 weeks, 2 for 13..24, 3 above 24); with
\* weeks_pregnant absent assess still completes and the trimester factor is
\* low and contributes 0.
C25_StoredTrimesterFromWeeks ==
    (/\ assessment.called
     /\ ~patient.has_trimester
     /\ assessment.weather.kind # "malformed")
    => /\ ~assessment.ret.raised
       /\ assessment.ret.factors["trimester_risk"]
          = calculate_trimester_risk(get_trimester(patient)).level
       /\ TrimesterContribution
          = calculate_trimester_risk(get_trimester(patient)).score
       /\ patient.weeks_pregnant = 0 => TrimesterContribution = 0

\* the entries of a list that contain a name of either table
RECURSIVE MatchingEntries(_)
MatchingEntries(entries) ==
    IF entries = <<>> THEN 0
    ELSE (IF Head(entries) \in HighRiskEntries \cup MediumRiskEntries
          THEN 1 ELSE 0)
         + MatchingEntries(Tail(entries))

\* C26: every entry of the semicolon-delimited list is scored on its own.
\* The medium-risk table is consulted for an entry only if that entry
\* matched no high-risk name, so an entry contributes 0, 1 or 2 and is
\* reported once at most; the medications sub-score is the sum over the
\* entries and at most twice their number.
C26_EntriesScoredOnTheirOwn ==
    Assessed =>
        LET entries == get_medications_list(patient)
            risk == calculate_medications_risk(patient)
        IN  /\ MedicationsContribution = risk.score
            /\ risk.score = PerEntryScore(entries)
            /\ risk.score <= 2 * Len(entries)
            /\ Len(risk.details) = MatchingEntries(entries)
            /\ \A i \in DOMAIN entries :
                  LET own == MedicationRisk(entries[i])
                  IN  /\ own.score \in {0, 1, 2}
                      /\ (entries[i] \in HighRiskEntries) <=> own.score = 2
                      /\ Len(own.details) <= 1

\* 'Calcium carbs' contains a name of both tables and counts 2, once
C26_Witness ==
    /\ Assessed
    /\ get_medications_list(patient)
       = << <<"C","a","l","c","i","u","m"," ","c","a","r","b","s">> >>
    /\ MedicationsContribution = 2
    /\ Len(calculate_medications_risk(patient).details) = 1

\* C27: an escalation that answers fallback_notification leaves the
\* EmergencyNotification records as they were: no emergency record created
\* during the call stays persisted, whether pending, sent or failed.
C27_FallbackLeavesNoEmergencyRecord ==
    (/\ Escalated
     /\ ~outcome.raised
     /\ outcome.result.action_taken = "fallback_notification")
    => /\ Len(emergency_notifications) = outcome.emergency_before
       /\ "emergency_persisted" \notin Range(outcome.steps)

C29_HeatWaveFlagMatchesSnapshot ==
    Assessed =>
        /\ assessment.ret.heat_wave_risk
           = assessment.ret.weather_data.is_heat_wave
        /\ assessment.ret.heat_wave_risk
           => /\ assessment.ret.factors["location_risk"] = "high"
              /\ LocationContribution = 2
              /\ assessment.ret.weather_data.temperature > 35

\* a run at 36 C: flag and snapshot agree on the heat wave, location high
C29_Witness ==
    /\ Assessed
    /\ assessment.ret.heat_wave_risk
    /\ assessment.ret.weather_data.is_heat_wave
    /\ assessment.ret.weather_data.temperature = 36
    /\ assessment.ret.factors["location_risk"] = "high"
    /\ LocationContribution = 2

\* the position of the first occurrence of a step in a sequence, 0 if none
FirstAt(steps, names) ==
    IF \E i \in DOMAIN steps : steps[i] \in names
    THEN CHOOSE i \in DOMAIN steps :
            /\ steps[i] \in names
            /\ \A j \in 1..(i - 1) : steps[j] \notin names
    ELSE 0

SendSteps == {"mark_as_sent", "mark_as_sent_raised"}

=============================================================================
